---- MODULE Spec2Model ----
(***************************************************************************)
(* Model of the generic CRUD layer (SQLAlchemySQLDbAdapter, CRUDSpec,      *)
(* CRUDUseCase) and of the fluent pipeline (array) of the repository.      *)
(*                                                                         *)
(* The table of one ORM type is a set of rows with a unique primary key    *)
(* "id" and two nullable columns "name" and "email".  The database session *)
(* is an external collaborator: a commit is synchronous, a primary-key     *)
(* violation raises IntegrityError out of the call and leaves the table    *)
(* as it was, and a query without ORDER BY may return its rows in any      *)
(* order.                                                                  *)
(***************************************************************************)
EXTENDS Integers, Sequences, FiniteSets, TLC

VARIABLES
  rows,       \* the table of the ORM type: a set of rows
  pc,         \* where the caller of the CRUD layer is
  call,       \* the call in progress or just returned, with its arguments
  ret,        \* what that call returned or raised
  pre,        \* the table when that call started
  inserted,   \* rows committed by another session during delete_value
  entities,   \* the table read by read_entity_relationship
  items,      \* array.items of the pipeline
  apc,        \* where the pipeline call is
  out,        \* what the pipeline call returned or raised
  submitted,  \* the arguments of the futures of apply_in_parallel
  fut,        \* the state of each future
  finished,   \* the futures that have run, in the order they finished
  collected,  \* the futures whose results the caller has taken, in order
  spec,       \* the CRUDSpec of the use case (its id_field)
  created,    \* the Read DTOs returned by the creations so far, in order
  debug_active, \* array.debug_active, the class-wide flag
  trace,      \* what the debug wrapper has printed
  given       \* the decorated call in progress: function, arguments, items before

dbVars == <<rows, pc, call, ret, pre, inserted>>
relVars == <<entities>>
arrVars == <<items, apc, out, submitted, fut, finished, collected>>
useVars == <<spec, created>>
\* No decorated call made yet.
NoCall == [func |-> "none", args |-> <<>>, items |-> <<>>]
dbgVars == <<debug_active, trace, given>>
vars == <<dbVars, relVars, arrVars, useVars, dbgVars>>

(***************************************************************************)
(* Bounds and value domains                                                *)
(***************************************************************************)
MaxId == 3
MaxBatch == 2
MaxConcurrent == 1
MaxEntities == 2
MaxChildren == 2
MaxLen == 3
MaxWorkers == 2
MaxNodes == 4
MaxAltId == 2

Ids == 1..MaxId
NoneStr == "None"
Names == {"Alice", "Bob"}
Emails == {"a@x"}
NameVals == Names \cup {NoneStr}
EmailVals == Emails \cup {NoneStr}

\* Optional[T]: None is the empty sequence, a value v is <<v>>.
None == <<>>
Some(v) == <<v>>

\* An ORM row of the table.
Row(i, n, e) == [id |-> i, name |-> n, email |-> e]
AllRows == {Row(i, n, e) : i \in Ids, n \in NameVals, e \in EmailVals}

IdsOf(store) == {r.id : r \in store}

\* Keyword arguments: the set of keys given and the value of each key
\* (a key that is not given carries a fixed filler, so that every
\* keyword dictionary has one representation).
Kw(S, i, n, e) ==
  [set |-> S, id |-> IF "id" \in S THEN i ELSE 1,
   name |-> IF "name" \in S THEN n ELSE NoneStr,
   email |-> IF "email" \in S THEN e ELSE NoneStr]
KwOver(keys) ==
  {Kw(S, i, n, e) : S \in SUBSET keys, i \in Ids, n \in NameVals, e \in EmailVals}

\* **kwargs of update_values: any columns.
UpdateKwargs == KwOver({"id", "name", "email"})
\* **kwargs of filter_by: equality filters on id and name.
MatchKwargs == KwOver({"id", "name"})
\* A write DTO: name and email, each explicitly set or not.
WriteDTOs == KwOver({"name", "email"})

\* dto.model_dump(exclude_unset=True): the explicitly set fields only.
model_dump(dto) == dto

\* One (key, value) pair of update_value.
KeyValues ==
  {<<"id", i>> : i \in Ids} \cup {<<"name", n>> : n \in NameVals}
    \cup {<<"email", e>> : e \in EmailVals}

Raise(store, e) == [rows |-> store, ret |-> [exc |-> e, val |-> None]]
Return(store, v) == [rows |-> store, ret |-> [exc |-> "none", val |-> v]]

\* session.query(class_table).filter_by(kwargs).all()
filter_by(store, match) ==
  {r \in store : /\ ("id" \in match.set => r.id = match.id)
                 /\ ("ref" \in match.set => r.ref = match.ref)
                 /\ ("name" \in match.set => r.name = match.name)
                 /\ ("email" \in match.set => r.email = match.email)}

\* Mutant of setattrs: every column of the DTO is written, the unset ones
\* as None (a dump without exclude_unset).
setattrs_all_fields(row, kw) ==
  [id |-> IF "id" \in kw.set THEN kw.id ELSE row.id,
   name |-> kw.name, email |-> kw.email]

\* setattr(row, key, value) for every key of kwargs.
setattrs(row, kw) ==
  [row EXCEPT !.id = IF "id" \in kw.set THEN kw.id ELSE row.id,
              !.name = IF "name" \in kw.set THEN kw.name ELSE row.name,
              !.email = IF "email" \in kw.set THEN kw.email ELSE row.email]

\* The flush of one changed row: the primary key stays unique.
flush_ok(store, old, new) == new.id = old.id \/ new.id \notin IdsOf(store)

\* SQLAlchemySQLDbAdapter.update_values: the outcomes of one call.
update_values(store, row_id, kw) ==
  LET found == filter_by(store, Kw({"id"}, row_id, NoneStr, NoneStr)) IN
  IF found = {}
  THEN \* row is None: setattr(None, ...) or session.refresh(None) raises
       IF kw.set # {}
       THEN {Raise(store, "AttributeError")}
       ELSE {Raise(store, "UnmappedInstanceError")}
  ELSE {IF flush_ok(store, row, setattrs(row, kw))
        THEN Return((store \ {row}) \cup {setattrs(row, kw)},
                    Some(setattrs(row, kw)))
        ELSE Raise(store, "IntegrityError") : row \in found}

\* SQLAlchemySQLDbAdapter.update_value: the first row that matches gets
\* one column set; no match returns None.
update_value(store, key, value, match) ==
  LET found == filter_by(store, match)
      kw == Kw({key}, IF key = "id" THEN value ELSE 1,
               IF key = "name" THEN value ELSE NoneStr,
               IF key = "email" THEN value ELSE NoneStr)
  IN IF found = {}
     THEN {Return(store, None)}
     ELSE {IF flush_ok(store, row, setattrs(row, kw))
           THEN Return((store \ {row}) \cup {setattrs(row, kw)},
                       Some(setattrs(row, kw)))
           ELSE Raise(store, "IntegrityError") : row \in found}

\* A transient ORM object: the ORM constructor on the dumped data; a column that was not given
\* is None, and an id that was not given is assigned by the storage.
NewRows == KwOver({"id", "name", "email"})
persisted(obj, i) == Row(i, obj.name, obj.email)

\* SQLAlchemySQLDbAdapter.add_value: add, commit, refresh.
add_value(store, new_row) ==
  IF "id" \in new_row.set
  THEN IF new_row.id \in IdsOf(store)
       THEN {Raise(store, "IntegrityError")}
       ELSE {Return(store \cup {persisted(new_row, new_row.id)},
                    Some(persisted(new_row, new_row.id)))}
  ELSE {Return(store \cup {persisted(new_row, i)}, Some(persisted(new_row, i)))
          : i \in Ids \ IdsOf(store)}

\* session.add_all(new_row); session.commit(): the tables the batch can
\* leave, every new row with an id of its own.
RECURSIVE add_all(_, _)
add_all(store, batch) ==
  IF batch = <<>>
  THEN {store}
  ELSE UNION {add_all(store \cup {persisted(Head(batch), i)}, Tail(batch))
                : i \in Ids \ IdsOf(store)}

\* SQLAlchemySQLDbAdapter.add_values: the batch, then read_all_values (a
\* list in no particular order, given here as the set of its rows).
add_values(store, batch) == {Return(s, s) : s \in add_all(store, batch)}

\* Mutant of read_value: the filter is dropped (query(...).first()).
read_value_unfiltered(store, match) ==
  IF store = {} THEN {None} ELSE {Some(r) : r \in store}

\* SQLAlchemySQLDbAdapter.read_value: the first match, or None.
read_value(store, match) ==
  IF filter_by(store, match) = {}
  THEN {None}
  ELSE {Some(r) : r \in filter_by(store, match)}

\* CRUDSpec.id_field of the use case's spec ("id" by default).
id_field == spec.id_field

\* The filter {spec.id_field: entity_id}.
by_id_field(k) == [set |-> {id_field}] @@ (id_field :> k)

\* Mutant of to_orm_write: the email is not passed to the constructor.
to_orm_write_without_email(dto) ==
  Kw(model_dump(dto).set \ {"email"}, 1, model_dump(dto).name, NoneStr)

\* CRUDSpec.to_orm_write: the constructor arguments are the dumped fields.
to_orm_write(dto) ==
  Kw(model_dump(dto).set, 1, model_dump(dto).name, model_dump(dto).email)

\* CRUDSpec.to_read: the Read DTO, field by field from the ORM row.
to_read(orm_obj) ==
  [id |-> orm_obj.id, name |-> orm_obj.name, email |-> orm_obj.email]

\* CRUDUseCase.write_entity: entity_id is None (create) or <<k>> (update).
write_entity(store, dto, entity_id) ==
  IF entity_id # None
  THEN {IF o.ret.exc # "none"
        THEN o
        ELSE IF o.ret.val = None
             THEN Raise(o.rows, "ValueError")
             ELSE Return(o.rows, Some(to_read(o.ret.val[1])))
          : o \in update_values(store, entity_id[1], model_dump(dto))}
  ELSE {IF o.ret.exc # "none"
        THEN o
        ELSE Return(o.rows, Some(to_read(o.ret.val[1])))
          : o \in add_value(store, to_orm_write(dto))}

\* CRUDUseCase.read_entity: ReadEntityResponse.entity.
read_entity(store, entity_id) ==
  {IF v = None THEN None ELSE Some(to_read(v[1]))
     : v \in read_value(store, by_id_field(entity_id))}

\* Mutant of delete_rows: only the first match is deleted.
delete_first_row(store, match) ==
  IF filter_by(store, match) = {}
  THEN store
  ELSE store \ {CHOOSE r \in filter_by(store, match) : TRUE}

\* Mutant of delete_rows: the filter is dropped, every row is deleted.
delete_all_rows(store, match) == {}

\* delete_value up to its commit: the rows left.
delete_rows(store, match) == store \ filter_by(store, match)

\* delete_value's return: the re-query after the commit finds nothing.
requery_empty(store, match) == filter_by(store, match) = {}

BatchesOf == UNION {[1..n -> KwOver({"name"})] : n \in 0..MaxBatch}

DbInit ==
  /\ rows = {}
  /\ pc = "idle"
  /\ call = [op |-> "init"]
  /\ ret = [exc |-> "none", val |-> None]
  /\ pre = {}
  /\ inserted = {}
  /\ spec = [id_field |-> "id"]
  /\ created = <<>>

\* No pipeline in use.
ArrIdle ==
  /\ items = <<>>
  /\ apc = "off"
  /\ out = [exc |-> "none", items |-> <<>>]
  /\ submitted = <<>>
  /\ fut = <<>>
  /\ finished = <<>>
  /\ collected = <<>>
  /\ debug_active = FALSE
  /\ trace = <<>>
  /\ given = NoCall

Init ==
  /\ DbInit
  /\ entities = {}
  /\ ArrIdle

\* One whole call on the session: its outcome o becomes the state, and
\* the call has returned (or raised) to its caller.
Outcome(o) ==
  /\ rows' = o.rows
  /\ ret' = o.ret
  /\ pre' = rows
  /\ pc' = "returned"
  /\ UNCHANGED <<inserted, relVars, arrVars, useVars, dbgVars>>

\* The caller has taken the result of the last call; the next call starts
\* from the table alone.
Resume ==
  /\ pc = "returned"
  /\ pc' = "idle"
  /\ call' = [op |-> "init"]
  /\ ret' = [exc |-> "none", val |-> None]
  /\ pre' = {}
  /\ inserted' = {}
  /\ UNCHANGED <<rows, relVars, arrVars, useVars, dbgVars>>

\* db.add_value(new_row)
AddValue ==
  /\ pc = "idle"
  /\ \E new_row \in NewRows :
       \E o \in add_value(rows, new_row) :
         /\ call' = [op |-> "add_value", new_row |-> new_row]
         /\ Outcome(o)

\* db.add_values(class_table, batch)
AddValues ==
  /\ pc = "idle"
  /\ \E batch \in BatchesOf :
       \E o \in add_values(rows, batch) :
         /\ call' = [op |-> "add_values", batch |-> batch]
         /\ Outcome(o)

\* db.update_values(class_table, row_id, **kw)
UpdateValues ==
  /\ pc = "idle"
  /\ \E row_id \in Ids, kw \in UpdateKwargs :
       \E o \in update_values(rows, row_id, kw) :
         /\ call' = [op |-> "update_values", row_id |-> row_id, kw |-> kw]
         /\ Outcome(o)

\* db.update_value(class_table, key, value, **match)
UpdateValue ==
  /\ pc = "idle"
  /\ \E kv \in KeyValues, match \in MatchKwargs :
       \E o \in update_value(rows, kv[1], kv[2], match) :
         /\ call' = [op |-> "update_value", key |-> kv[1], value |-> kv[2],
                     match |-> match]
         /\ Outcome(o)

\* use_case.write_entity(request, entity_id)
WriteEntity ==
  /\ pc = "idle"
  /\ \E dto \in WriteDTOs, entity_id \in {None} \cup {Some(k) : k \in Ids} :
       \E o \in write_entity(rows, dto, entity_id) :
         /\ call' = [op |-> "write_entity", dto |-> dto, entity_id |-> entity_id]
         /\ Outcome(o)

\* use_case.read_entity(request)
ReadEntity ==
  /\ pc = "idle"
  /\ \E k \in Ids :
       \E v \in read_entity(rows, k) :
         /\ call' = [op |-> "read_entity", entity_id |-> k]
         /\ Outcome(Return(rows, v))

\* db.delete_value(class_table, **match), up to and with its commit.
DeleteValueCommit ==
  /\ pc = "idle"
  /\ \E match \in MatchKwargs :
       /\ call' = [op |-> "delete_value", match |-> match]
       /\ rows' = delete_rows(rows, match)
  /\ pc' = "requery"
  /\ pre' = rows
  /\ inserted' = {}
  /\ ret' = [exc |-> "none", val |-> None]
  /\ UNCHANGED <<relVars, arrVars, useVars, dbgVars>>

\* Another session commits one new row between delete_value's commit and
\* its re-query.
ConcurrentInsert ==
  /\ pc = "requery"
  /\ Cardinality(inserted) < MaxConcurrent
  /\ \E r \in AllRows :
       /\ r.id \notin IdsOf(rows)
       /\ rows' = rows \cup {r}
       /\ inserted' = inserted \cup {r}
  /\ UNCHANGED <<pc, call, ret, pre, relVars, arrVars, useVars, dbgVars>>

\* delete_value's re-query and return.
DeleteValueRequery ==
  /\ pc = "requery"
  /\ call.op = "delete_value"
  /\ ret' = [exc |-> "none", val |-> requery_empty(rows, call.match)]
  /\ pc' = "returned"
  /\ UNCHANGED <<rows, call, pre, inserted, relVars, arrVars, useVars, dbgVars>>

\* DeleteEntityResponse.message for the request's entity_id.
deleted_message(entity_id) ==
  [message |-> <<"Entity with id ", entity_id, " deleted successfully">>]

\* use_case.delete_entity(request), up to and with delete_value's commit.
DeleteEntityCommit ==
  /\ pc = "idle"
  /\ \E k \in Ids :
       /\ call' = [op |-> "delete_entity", entity_id |-> k,
                   match |-> by_id_field(k)]
       /\ rows' = delete_rows(rows, by_id_field(k))
  /\ pc' = "requery"
  /\ pre' = rows
  /\ inserted' = {}
  /\ ret' = [exc |-> "none", val |-> None]
  /\ UNCHANGED <<relVars, arrVars, useVars, dbgVars>>

\* delete_value's re-query, whose result delete_entity drops, and the
\* return of the confirmation message.
DeleteEntityReturn ==
  /\ pc = "requery"
  /\ call.op = "delete_entity"
  /\ ret' = [exc |-> "none", val |-> deleted_message(call.entity_id)]
  /\ pc' = "returned"
  /\ UNCHANGED <<rows, call, pre, inserted, relVars, arrVars, useVars, dbgVars>>

Next ==
  \/ AddValue
  \/ AddValues
  \/ UpdateValues
  \/ UpdateValue
  \/ WriteEntity
  \/ ReadEntity
  \/ DeleteValueCommit
  \/ ConcurrentInsert
  \/ DeleteValueRequery
  \/ DeleteEntityCommit
  \/ DeleteEntityReturn
  \/ Resume

(***************************************************************************)
(* Properties of the CRUD layer                                            *)
(***************************************************************************)
Returned(op) == pc = "returned" /\ call.op = op
WriteFields == {"name", "email"}
RowWithId(store, k) == CHOOSE r \in store : r.id = k

UpdateOfMissing ==
  /\ Returned("write_entity")
  /\ call.entity_id # None
  /\ call.entity_id[1] \notin IdsOf(pre)

\* C1: write_entity(request, entity_id=k) with no record of id k raises the
\* engine's not-found error (ValueError) and leaves every record unchanged.
C1_UpdateMissingRaisesNotFound ==
  UpdateOfMissing => (ret.exc = "ValueError" /\ rows = pre)

\* C2: update_values on an id that no record has returns None, does not
\* raise, whatever the fields (the empty set included), and leaves the
\* store unchanged.
C2_UpdateValuesMissingReturnsNone ==
  (Returned("update_values") /\ call.row_id \notin IdsOf(pre))
    => (ret.exc = "none" /\ ret.val = None /\ rows = pre)

UpdateOfExisting ==
  /\ Returned("write_entity")
  /\ call.entity_id # None
  /\ call.entity_id[1] \in IdsOf(pre)

\* C3: write_entity(u, entity_id=r.id) on an existing record r sets exactly
\* the fields explicitly set in u, leaves every other field of r as it was
\* and leaves every other record unchanged.
C3_PartialUpdateFrame ==
  UpdateOfExisting =>
    LET k == call.entity_id[1]
        r == RowWithId(pre, k)
        u == call.dto
    IN /\ ret.exc = "none"
       /\ \E r2 \in rows :
            /\ r2.id = r.id
            /\ \A f \in WriteFields :
                 r2[f] = IF f \in u.set THEN u[f] ELSE r[f]
            /\ rows \ {r2} = pre \ {r}

\* Witness of C3: an update of the name alone, of a record that has an
\* email, in a table with another record.
C3_Witness ==
  /\ UpdateOfExisting
  /\ call.dto.set = {"name"}
  /\ Cardinality(pre) >= 2
  /\ RowWithId(pre, call.entity_id[1]).email # NoneStr
  /\ RowWithId(pre, call.entity_id[1]).name # call.dto.name

Created ==
  /\ Returned("write_entity")
  /\ call.entity_id = None
  /\ ret.exc = "none"

\* C4: after write_entity(w) without entity_id, read_entity on the id of
\* the returned entity yields the Read DTO that write_entity returned, and
\* its fields equal the explicitly set fields of w.
C4_CreateReadRoundTrip ==
  Created =>
    /\ read_entity(rows, ret.val[1].id) = {ret.val}
    /\ \A f \in WriteFields : f \in call.dto.set => ret.val[1][f] = call.dto[f]

\* Witness of C4: a record created with both fields set, in a table that
\* already holds a record.
C4_Witness ==
  /\ Created
  /\ call.dto.set = WriteFields
  /\ call.dto.email # NoneStr
  /\ pre # {}

\* C5: read_entity on an id that no record has returns the absent-value
\* marker, does not raise and leaves the store unchanged.
C5_ReadMissingReturnsNone ==
  (Returned("read_entity") /\ call.entity_id \notin IdsOf(pre))
    => (ret.exc = "none" /\ ret.val = None /\ rows = pre)

\* Witness of C5: a miss in a table that is not empty.
C5_Witness ==
  /\ Returned("read_entity")
  /\ call.entity_id \notin IdsOf(pre)
  /\ pre # {}

\* C7: no operation changes the id of an existing record: an add or an
\* update leaves every id of the table in the table, and a delete leaves
\* the records it keeps as they were.
C7_IdentityImmutable ==
  /\ (pc = "returned" /\ call.op \in {"add_value", "add_values",
        "update_values", "update_value", "write_entity"})
       => IdsOf(pre) \subseteq IdsOf(rows)
  /\ (pc = "requery" /\ inserted = {}) => rows \subseteq pre

\* C9: delete_value deletes every match and commits; it returns true iff
\* the re-query after the commit finds no match: false when a concurrent
\* writer inserted a matching row in between, true with no concurrent
\* writer, also when nothing matched.
C9_DeleteValueRequery ==
  /\ (pc = "requery" /\ inserted = {})
       => rows = pre \ filter_by(pre, call.match)
  /\ Returned("delete_value") =>
       /\ rows = (pre \ filter_by(pre, call.match)) \cup inserted
       /\ ret.exc = "none"
       /\ ret.val = TRUE <=> filter_by(rows, call.match) = {}
       /\ filter_by(inserted, call.match) # {} => ret.val = FALSE
       /\ inserted = {} => ret.val = TRUE

\* Witness of C9: rows were deleted, a concurrent writer inserted a match
\* before the re-query, and delete_value returned false.
C9_Witness ==
  /\ Returned("delete_value")
  /\ filter_by(pre, call.match) # {}
  /\ filter_by(inserted, call.match) # {}
  /\ ret.val = FALSE

\* The records whose identifying field equals k.
Identified(store, k) == {r \in store : r[id_field] = k}

\* C15: delete_entity(k) removes exactly the records whose identifying
\* field equals k and leaves every other record as it was (the table
\* after the call is the table before without them, plus what other
\* sessions committed meanwhile); read_entity(k) in the state after the
\* return yields the absent value unless another session has just inserted
\* a record identified by k; the message returned is the same whether or
\* not a record identified by k existed.
C15_DeleteEntityFrame ==
  Returned("delete_entity") =>
    /\ rows = (pre \ Identified(pre, call.entity_id)) \cup inserted
    /\ Identified(inserted, call.entity_id) = {}
         => read_entity(rows, call.entity_id) = {None}
    /\ ret = [exc |-> "none", val |-> deleted_message(call.entity_id)]

\* Witness of C15: delete_entity returned after deleting one record of a
\* table that holds others, with no other session at work.
C15_Witness ==
  /\ Returned("delete_entity")
  /\ inserted = {}
  /\ Identified(pre, call.entity_id) # {}
  /\ rows # {}
  /\ rows = pre \ Identified(pre, call.entity_id)

\* Witness of C15, nothing to delete: the same message for an id that no
\* record has.
C15_WitnessMissing ==
  /\ Returned("delete_entity")
  /\ Identified(pre, call.entity_id) = {}
  /\ pre # {}
  /\ ret.val = deleted_message(call.entity_id)

Spec == Init /\ [][Next]_vars

(***************************************************************************)
(* read_entity_relationship                                                *)
(*                                                                         *)
(* An entity is a row with one more attribute, "rel": what                 *)
(* getattr(orm_obj, request.relationship) finds under the requested name.  *)
(*   absent  no attribute of that name                                     *)
(*   none    the attribute is None (a to-one relationship with no target)  *)
(*   list    a to-many relationship held in a list                         *)
(*   set     a to-many relationship held in a set (its elements are given  *)
(*           as a sequence without repetition; it is never iterated)       *)
(*   single  a to-one relationship: one related record                     *)
(***************************************************************************)
RelIds == 1..MaxEntities
Related == {Row(i, "Bob", NoneStr) : i \in RelIds}

RelValue(kind, elems) == [kind |-> kind, elems |-> elems]
ListsOf(S) == UNION {[1..n -> S] : n \in 0..MaxChildren}
Distinct(q) == \A i, j \in 1..Len(q) : i < j => q[i].id < q[j].id
RelValues ==
  {RelValue("absent", <<>>), RelValue("none", <<>>)}
    \cup {RelValue("list", q) : q \in ListsOf(Related)}
    \cup {RelValue("set", q) : q \in {x \in ListsOf(Related) : Distinct(x)}}
    \cup {RelValue("single", <<r>>) : r \in Related}

Entity(i, v) == [id |-> i, name |-> "Alice", email |-> NoneStr, rel |-> v]

\* getattr(orm_obj, request.relationship, None) is None
getattr_is_none(related) == related.kind \in {"absent", "none"}

\* Mutant of is_list: the relationship is never taken for a list.
is_list_never(related) == FALSE

\* isinstance(related, list)
is_list(related) == related.kind = "list"

\* read_out.model_validate(obj, from_attributes=True) of the relationship
\* value itself: a related record has the Read DTO's attributes, a
\* container does not and fails the validation.
to_read_related(related) ==
  IF related.kind = "single"
  THEN [exc |-> "none", val |-> <<to_read(related.elems[1])>>]
  ELSE [exc |-> "ValidationError", val |-> None]

\* CRUDUseCase.read_entity_relationship: ReadEntityRelationshipResponse
\* .related_entities, or the exception raised.
read_entity_relationship(store, entity_id) ==
  {IF v = None
   THEN [exc |-> "none", val |-> <<>>]
   ELSE LET related == v[1].rel IN
        IF getattr_is_none(related)
        THEN [exc |-> "none", val |-> <<>>]
        ELSE IF is_list(related)
             THEN [exc |-> "none",
                   val |-> [i \in 1..Len(related.elems) |->
                              to_read(related.elems[i])]]
             ELSE to_read_related(related)
     : v \in read_value(store, by_id_field(entity_id))}

RelInit ==
  /\ DbInit
  /\ ArrIdle
  /\ \E f \in [RelIds -> RelValues \cup {RelValue("norow", <<>>)}] :
       entities = {Entity(i, f[i]) : i \in {j \in RelIds : f[j].kind # "norow"}}

\* use_case.read_entity_relationship(request)
ReadEntityRelationship ==
  /\ pc = "idle"
  /\ \E k \in RelIds :
       \E r \in read_entity_relationship(entities, k) :
         /\ call' = [op |-> "read_entity_relationship", entity_id |-> k]
         /\ ret' = r
  /\ pc' = "returned"
  /\ UNCHANGED <<rows, pre, inserted, relVars, arrVars, useVars, dbgVars>>

RelNext ==
  \/ ReadEntityRelationship
  \/ Resume

SpecRel == RelInit /\ [][RelNext]_vars

RelationshipRead == Returned("read_entity_relationship")
Requested == filter_by(entities, by_id_field(call.entity_id))
RequestedRel == (CHOOSE e \in Requested : TRUE).rel
OneReadPerElement(elems) ==
  /\ ret.exc = "none"
  /\ Len(ret.val) = Len(elems)
  /\ \A i \in 1..Len(elems) : ret.val[i] = to_read(elems[i])

\* C10 as stated: an empty list, with no error, when the entity or the
\* relationship attribute is missing; one Read DTO per element, in order,
\* when the relationship value is a collection; a one-element list when it
\* is a single related record.
C10_RelationshipAnyCollection ==
  RelationshipRead =>
    IF Requested = {}
    THEN ret.exc = "none" /\ ret.val = <<>>
    ELSE /\ RequestedRel.kind = "absent"
              => (ret.exc = "none" /\ ret.val = <<>>)
         /\ RequestedRel.kind \in {"list", "set"}
              => OneReadPerElement(RequestedRel.elems)
         /\ RequestedRel.kind = "single"
              => OneReadPerElement(RequestedRel.elems)

\* C10 amended: as above, with "a collection" read as "a list".
C10_RelationshipList ==
  RelationshipRead =>
    IF Requested = {}
    THEN ret.exc = "none" /\ ret.val = <<>>
    ELSE /\ RequestedRel.kind = "absent"
              => (ret.exc = "none" /\ ret.val = <<>>)
         /\ RequestedRel.kind = "list"
              => OneReadPerElement(RequestedRel.elems)
         /\ RequestedRel.kind = "single"
              => OneReadPerElement(RequestedRel.elems)

\* Witness of C10: a list of two related records read as two Read DTOs, in
\* a table that holds another entity.
C10_Witness ==
  /\ RelationshipRead
  /\ Cardinality(entities) >= 2
  /\ Requested # {}
  /\ RequestedRel.kind = "list"
  /\ Len(RequestedRel.elems) = 2
  /\ RequestedRel.elems[1] # RequestedRel.elems[2]
  /\ Len(ret.val) = 2

(***************************************************************************)
(* The fluent pipeline: array.validate                                     *)
(*                                                                         *)
(* An element of the pipeline is one of                                    *)
(*   instance      an instance of the schema                               *)
(*   dict_valid    a dict from which the schema builds an instance         *)
(*   dict_invalid  a dict that fails the schema's validation               *)
(*   dict_keys     a dict with a key that is not a string: unpacking it    *)
(*                 into the schema's keyword arguments raises TypeError    *)
(*   other         neither a dict nor an instance of the schema            *)
(* and carries a tag that tells it from the others.                        *)
(***************************************************************************)
Tags == {"a", "b"}
Kinds == {"instance", "dict_valid", "dict_invalid", "dict_keys", "other"}
Elems == {[kind |-> k, tag |-> t] : k \in Kinds, t \in Tags}
SeqsOf(S) == UNION {[1..n -> S] : n \in 0..MaxLen}

\* array.__init__: one argument that is a list, a tuple or a set is
\* unpacked, anything else is the list of the arguments.
array_init(args) ==
  IF Len(args) = 1 /\ args[1].kind \in {"list", "tuple", "set"}
  THEN args[1].elems
  ELSE args

\* The body of validate's try block for one item: the validated item, or
\* the exception raised.
try_item(item) ==
  CASE item.kind = "dict_valid" ->
         [exc |-> "none", val |-> [kind |-> "instance", tag |-> item.tag]]
    [] item.kind = "dict_invalid" -> [exc |-> "ValidationError", val |-> item]
    [] item.kind = "dict_keys" -> [exc |-> "TypeError", val |-> item]
    [] item.kind = "instance" -> [exc |-> "none", val |-> item]
    [] OTHER -> [exc |-> "TypeError", val |-> item]

\* Mutant of caught: the handler catches every exception.
caught_any(exc) == TRUE

\* except pydantic.ValidationError
caught(exc) == exc = "ValidationError"

\* validate's loop from item i on, with the items validated so far.
RECURSIVE validate_from(_, _, _)
validate_from(its, i, validated_items) ==
  IF i > Len(its)
  THEN [exc |-> "none", items |-> array_init(validated_items)]
  ELSE LET r == try_item(its[i]) IN
       IF r.exc = "none"
       THEN validate_from(its, i + 1, Append(validated_items, r.val))
       ELSE IF caught(r.exc)
            THEN validate_from(its, i + 1, validated_items)
            ELSE [exc |-> r.exc, items |-> <<>>]

\* array.validate(schema): the new array's items, or the exception.
validate(its) == validate_from(its, 1, <<>>)

ValidateInit ==
  /\ DbInit
  /\ entities = {}
  /\ items \in SeqsOf(Elems)
  /\ apc = "ready"
  /\ out = [exc |-> "none", items |-> <<>>]
  /\ submitted = <<>>
  /\ fut = <<>>
  /\ finished = <<>>
  /\ collected = <<>>
  /\ debug_active = FALSE
  /\ trace = <<>>
  /\ given = NoCall

\* pipeline.validate(schema)
Validate ==
  /\ apc = "ready"
  /\ out' = validate(items)
  /\ apc' = "validated"
  /\ UNCHANGED <<dbVars, relVars, useVars, dbgVars, items, submitted, fut, finished, collected>>

ValidateNext == Validate

SpecValidate == ValidateInit /\ [][ValidateNext]_vars

\* The elements validate keeps, in their order, each as a schema instance.
Keepable(x) == x.kind \in {"instance", "dict_valid"}
Kept(its) ==
  LET k == SelectSeq(its, Keepable)
  IN [i \in 1..Len(k) |-> [kind |-> "instance", tag |-> k[i].tag]]
HasKind(its, kinds) == \E i \in 1..Len(its) : its[i].kind \in kinds

\* C6 as stated: validate never raises; every element that is not a schema
\* instance and cannot be turned into one is dropped and the others are
\* kept in their order.
C6_ValidateNeverRaises ==
  apc = "validated" => (out.exc = "none" /\ out.items = Kept(items))

\* C6 amended: validate raises TypeError when an element is neither a
\* dict nor a schema instance (or is a dict that cannot be unpacked into
\* keyword arguments); otherwise it does not raise, drops the dicts that
\* fail validation and keeps the other elements in their order.
C6_ValidateDropsInvalidDicts ==
  apc = "validated" =>
    IF HasKind(items, {"other", "dict_keys"})
    THEN out.exc = "TypeError"
    ELSE out.exc = "none" /\ out.items = Kept(items)

\* Witness of C6: an invalid dict dropped from between two elements that
\* are kept.
C6_Witness ==
  /\ apc = "validated"
  /\ Len(items) = 3
  /\ items[1].kind = "dict_valid"
  /\ items[2].kind = "dict_invalid"
  /\ items[3].kind = "instance"
  /\ items[1].tag # items[3].tag
  /\ Len(out.items) = 2

(***************************************************************************)
(* The fluent pipeline: array.apply_in_parallel                            *)
(*                                                                         *)
(* executor.map submits one future per item; the pool's workers run them   *)
(* in any order, at most MaxWorkers at a time; list(...) takes the results *)
(* in the order of submission, and leaving the with block waits for the    *)
(* workers.  foo raises on the item 0.                                     *)
(***************************************************************************)
Inputs == 0..2
foo_raises(x) == x = 0
foo(x) == x + 10

Running == {i \in 1..Len(fut) : fut[i] = "running"}

\* Mutant of next_future: the results are taken as they complete.
next_completed(taken, futures) ==
  {i \in 1..Len(futures) :
     /\ futures[i] \in {"done", "failed"}
     /\ \A k \in 1..Len(taken) : taken[k] # i}

\* The future whose result the iterator of executor.map yields next.
next_future(taken, futures) ==
  {i \in 1..Len(futures) : i = Len(taken) + 1}

ParallelInit ==
  /\ DbInit
  /\ entities = {}
  /\ items \in SeqsOf(Inputs)
  /\ apc = "ready"
  /\ out = [exc |-> "none", items |-> <<>>]
  /\ submitted = <<>>
  /\ fut = <<>>
  /\ finished = <<>>
  /\ collected = <<>>
  /\ debug_active = FALSE
  /\ trace = <<>>
  /\ given = NoCall

\* pipeline.apply_in_parallel(foo): executor.map submits every item.
Submit ==
  /\ apc = "ready"
  /\ submitted' = items
  /\ fut' = [i \in 1..Len(items) |-> "pending"]
  /\ apc' = "mapping"
  /\ UNCHANGED <<dbVars, relVars, useVars, dbgVars, items, out, finished, collected>>

\* A free worker starts a pending future.
WorkerStart ==
  /\ apc = "mapping"
  /\ Cardinality(Running) < MaxWorkers
  /\ \E i \in 1..Len(fut) :
       /\ fut[i] = "pending"
       /\ fut' = [fut EXCEPT ![i] = "running"]
  /\ UNCHANGED <<dbVars, relVars, useVars, dbgVars, items, apc, out, submitted, finished,
                 collected>>

\* A worker finishes its future: foo returned or raised.
WorkerFinish ==
  /\ apc \in {"mapping", "unwinding"}
  /\ \E i \in Running :
       /\ fut' = [fut EXCEPT ![i] = IF foo_raises(submitted[i])
                                    THEN "failed" ELSE "done"]
       /\ finished' = Append(finished, i)
  /\ UNCHANGED <<dbVars, relVars, useVars, dbgVars, items, apc, out, submitted, collected>>

\* list(...) takes the next result.
TakeResult ==
  /\ apc = "mapping"
  /\ \E i \in next_future(collected, fut) :
       /\ fut[i] = "done"
       /\ collected' = Append(collected, i)
  /\ UNCHANGED <<dbVars, relVars, useVars, dbgVars, items, apc, out, submitted, fut, finished>>

\* The next result is an exception: it is raised in the caller, and the
\* futures still pending are cancelled.
TakeException ==
  /\ apc = "mapping"
  /\ \E i \in next_future(collected, fut) : fut[i] = "failed"
  /\ fut' = [i \in 1..Len(fut) |->
               IF fut[i] = "pending" THEN "cancelled" ELSE fut[i]]
  /\ apc' = "unwinding"
  /\ UNCHANGED <<dbVars, relVars, useVars, dbgVars, items, out, submitted, finished, collected>>

\* Every result is taken: the with block is left (no worker is running),
\* self.items is the list of the results, and the pipeline is returned.
ParallelReturn ==
  /\ apc = "mapping"
  /\ Len(collected) = Len(submitted)
  /\ Running = {}
  /\ items' = [k \in 1..Len(collected) |-> foo(submitted[collected[k]])]
  /\ out' = [exc |-> "none", items |-> items']
  /\ apc' = "returned"
  /\ UNCHANGED <<dbVars, relVars, useVars, dbgVars, submitted, fut, finished, collected>>

\* The with block is left with the exception, once no worker is running.
ParallelRaise ==
  /\ apc = "unwinding"
  /\ Running = {}
  /\ out' = [exc |-> "Exception", items |-> <<>>]
  /\ apc' = "raised"
  /\ UNCHANGED <<dbVars, relVars, useVars, dbgVars, items, submitted, fut, finished, collected>>

ParallelNext ==
  \/ Submit
  \/ WorkerStart
  \/ WorkerFinish
  \/ TakeResult
  \/ TakeException
  \/ ParallelRaise
  \/ ParallelReturn

SpecParallel == ParallelInit /\ [][ParallelNext]_vars

\* C8: apply_in_parallel returns only after foo has been applied to every
\* element, and the result has foo(x_i) at index i for every i, whatever
\* the order in which the workers started and finished.
C8_ParallelKeepsIndexOrder ==
  apc = "returned" =>
    /\ \A i \in 1..Len(submitted) : fut[i] = "done"
    /\ Len(items) = Len(submitted)
    /\ \A i \in 1..Len(submitted) : items[i] = foo(submitted[i])

\* Witness of C8: a return after the second future finished before the
\* first, on two different items.
C8_Witness ==
  /\ apc = "returned"
  /\ Len(submitted) >= 2
  /\ submitted[1] # submitted[2]
  /\ \E a, b \in 1..Len(finished) :
       a < b /\ finished[a] = 2 /\ finished[b] = 1

(***************************************************************************)
(* The fluent pipeline: the debug decorator, flatten, reverse, pop, append *)
(*                                                                         *)
(* Besides the elements above, a pipeline may hold                         *)
(*   leaf          a value that is not a sequence                          *)
(*   unrepr        a value whose repr raises an Exception                  *)
(*   list, tuple   a sequence of elements, in the field elems              *)
(***************************************************************************)
SeqKinds == {"list", "tuple"}
Leaves == {[kind |-> "leaf", tag |-> t] : t \in Tags}
Unreprs == {[kind |-> "unrepr", tag |-> t] : t \in Tags}
IsSeq(x) == x.kind \in SeqKinds

\* The sequences of elements with at most n nodes in all, and the elements
\* with at most k nodes.
RECURSIVE Forest(_)
RECURSIVE Nested(_)
Forest(n) ==
  IF n = 0
  THEN {<<>>}
  ELSE {<<>>} \cup
       UNION {{<<e>> \o r : e \in Nested(k), r \in Forest(n - k)} : k \in 1..n}
Nested(k) ==
  Leaves \cup {[kind |-> c, elems |-> f] : c \in SeqKinds, f \in Forest(k - 1)}

\* repr(item): the text, or the exception raised.  The repr of a sequence
\* calls the repr of its elements.
RECURSIVE repr(_)
repr(item) ==
  IF item.kind = "unrepr"
  THEN [exc |-> "Exception", val |-> "none"]
  ELSE IF IsSeq(item)
       THEN IF \E i \in 1..Len(item.elems) : repr(item.elems[i]).exc # "none"
            THEN [exc |-> "Exception", val |-> "none"]
            ELSE [exc |-> "none", val |-> [repr_of |-> item]]
       ELSE [exc |-> "none", val |-> [repr_of |-> item]]

\* Mutant of safe_repr: no handler around repr.
safe_repr_unguarded(item) == repr(item)

\* array.safe_repr: repr(item), or a placeholder when repr raises.
safe_repr(item) ==
  LET r == repr(item) IN
  IF r.exc = "none"
  THEN r
  ELSE [exc |-> "none", val |-> [placeholder |-> "<Unrepresentable Object>"]]

\* ", ".join(self.safe_repr(item) for item in self.items): the joined
\* text, or the first exception that leaves safe_repr.
join_safe_repr(its) ==
  LET rs == [i \in 1..Len(its) |-> safe_repr(its[i])] IN
  IF \E i \in 1..Len(its) : rs[i].exc # "none"
  THEN [exc |-> rs[CHOOSE i \in 1..Len(its) :
                     /\ rs[i].exc # "none"
                     /\ \A j \in 1..(i - 1) : rs[j].exc = "none"].exc,
        val |-> <<>>]
  ELSE [exc |-> "none", val |-> [i \in 1..Len(its) |-> rs[i].val]]

\* Mutant of unpack: a tuple is unpacked like a list.
RECURSIVE unpack_any_sequence(_)
unpack_any_sequence(array_of_arrays) ==
  IF ~IsSeq(array_of_arrays)
  THEN <<array_of_arrays>>
  ELSE LET RECURSIVE cat(_)
           cat(subs) == IF subs = <<>>
                        THEN <<>>
                        ELSE unpack_any_sequence(Head(subs)) \o cat(Tail(subs))
       IN cat(array_of_arrays.elems)

\* flatten's unpack: what is not a list is one item; a list is the
\* concatenation of its sublists unpacked.
RECURSIVE unpack(_)
unpack(array_of_arrays) ==
  IF array_of_arrays.kind # "list"
  THEN <<array_of_arrays>>
  ELSE LET RECURSIVE cat(_)
           cat(subs) == IF subs = <<>>
                        THEN <<>>
                        ELSE unpack(Head(subs)) \o cat(Tail(subs))
       IN cat(array_of_arrays.elems)

\* The undecorated operations on self.items: the new items, or the
\* exception raised with the items as they were.
flatten(its) ==
  [exc |-> "none", items |-> unpack([kind |-> "list", elems |-> its])]

RECURSIVE reversed(_)
reversed(its) ==
  IF its = <<>> THEN <<>> ELSE Append(reversed(Tail(its)), Head(its))

reverse(its) == [exc |-> "none", items |-> reversed(its)]

append(its, item) == [exc |-> "none", items |-> Append(its, item)]

\* The indexes pop is called with: the default, the first, the second.
PopIndexes == (-1)..1

\* list.pop(index) counts a negative index from the end and raises
\* IndexError outside the list; pop keeps the popped item alone.
pop(its, index) ==
  LET pos == IF index < 0 THEN index + Len(its) ELSE index IN
  IF pos < 0 \/ pos >= Len(its)
  THEN [exc |-> "IndexError", items |-> its]
  ELSE [exc |-> "none", items |-> <<its[pos + 1]>>]

\* func(self, *args, **kwargs) in the wrapper.
func_call(func, its, args) ==
  CASE func = "flatten" -> flatten(its)
    [] func = "reverse" -> reverse(its)
    [] func = "append" -> append(its, args[1])
    [] func = "pop" -> pop(its, args[1])

\* wrapper_debug: with the flag on it prints the items before the call and
\* after it; the call's result is returned, an exception leaves the
\* wrapper where it is raised.
wrapper_debug(func, its, args) ==
  LET before == join_safe_repr(its)
      result == func_call(func, its, args)
      after == join_safe_repr(result.items)
      printed == Append(trace, [mark |-> "BEFORE", func |-> func,
                                text |-> before.val])
  IN
  IF ~debug_active
  THEN [out |-> result, trace |-> trace]
  ELSE IF before.exc # "none"
       THEN [out |-> [exc |-> before.exc, items |-> its], trace |-> trace]
       ELSE IF result.exc # "none"
            THEN [out |-> result, trace |-> printed]
            ELSE IF after.exc # "none"
                 THEN [out |-> [exc |-> after.exc, items |-> result.items],
                       trace |-> printed]
                 ELSE [out |-> result,
                       trace |-> Append(printed,
                                        [mark |-> "AFTER", func |-> func,
                                         text |-> after.val])]

\* One decorated call on the pipeline.
Decorated(func, args) ==
  /\ LET r == wrapper_debug(func, items, args) IN
       /\ out' = r.out
       /\ items' = r.out.items
       /\ trace' = r.trace
  /\ given' = [func |-> func, args |-> args, items |-> items]
  /\ apc' = "called"
  /\ UNCHANGED <<dbVars, relVars, useVars, debug_active, submitted, fut,
                 finished, collected>>

\* pipeline.flatten()
Flatten ==
  /\ apc = "ready"
  /\ Decorated("flatten", <<>>)

\* pipeline.reverse()
Reverse ==
  /\ apc = "ready"
  /\ Decorated("reverse", <<>>)

\* pipeline.append(item)
AppendItem ==
  /\ apc = "ready"
  /\ \E item \in Leaves \cup Unreprs : Decorated("append", <<item>>)

\* pipeline.pop(index)
Pop ==
  /\ apc = "ready"
  /\ \E index \in PopIndexes : Decorated("pop", <<index>>)

\* array(sequence), the flag off.
FlattenInit ==
  /\ DbInit
  /\ entities = {}
  /\ \E c \in SeqKinds, f \in Forest(MaxNodes) :
       items = array_init(<<[kind |-> c, elems |-> f]>>)
  /\ apc = "ready"
  /\ out = [exc |-> "none", items |-> <<>>]
  /\ submitted = <<>>
  /\ fut = <<>>
  /\ finished = <<>>
  /\ collected = <<>>
  /\ debug_active = FALSE
  /\ trace = <<>>
  /\ given = NoCall

FlattenNext == Flatten

SpecFlatten == FlattenInit /\ [][FlattenNext]_vars

\* The leaves of a sequence from left to right, every kind of sequence
\* gone through.
RECURSIVE LeavesOf(_)
LeavesOf(x) ==
  IF ~IsSeq(x)
  THEN <<x>>
  ELSE LET RECURSIVE cat(_)
           cat(subs) == IF subs = <<>>
                        THEN <<>>
                        ELSE LeavesOf(Head(subs)) \o cat(Tail(subs))
       IN cat(x.elems)

\* The same, only lists gone through: a tuple counts as one leaf.
RECURSIVE ListLeavesOf(_)
ListLeavesOf(x) ==
  IF x.kind # "list"
  THEN <<x>>
  ELSE LET RECURSIVE cat(_)
           cat(subs) == IF subs = <<>>
                        THEN <<>>
                        ELSE ListLeavesOf(Head(subs)) \o cat(Tail(subs))
       IN cat(x.elems)

\* The deepest nesting of lists in a sequence of elements.
RECURSIVE ListDepth(_)
ListDepth(x) ==
  IF x.kind # "list"
  THEN 0
  ELSE LET RECURSIVE deepest(_)
           deepest(subs) ==
             IF subs = <<>>
             THEN 0
             ELSE LET h == ListDepth(Head(subs))
                      t == deepest(Tail(subs))
                  IN IF h > t THEN h ELSE t
       IN 1 + deepest(x.elems)

Flattened == apc = "called" /\ given.func = "flatten"
GivenList == [kind |-> "list", elems |-> given.items]

\* C11 as stated: flatten leaves the left-to-right sequence of the
\* non-sequence leaves, nested sequences of every kind gone through, so
\* that the result holds no nested sequence.
C11_FlattenAnySequence ==
  Flattened =>
    /\ out.exc = "none"
    /\ items = LeavesOf(GivenList)
    /\ \A i \in 1..Len(items) : ~IsSeq(items[i])

\* C11 amended: flatten leaves the left-to-right sequence of the leaves
\* reached through nested lists of any depth, so that the result holds no
\* nested list; a tuple in the sequence is kept whole, as one item.
C11_FlattenLists ==
  Flattened =>
    /\ out.exc = "none"
    /\ out.items = items
    /\ items = ListLeavesOf(GivenList)
    /\ \A i \in 1..Len(items) : items[i].kind # "list"

\* Witness of C11: a flatten of lists nested two deep, with leaves at
\* different depths.
C11_Witness ==
  /\ Flattened
  /\ ListDepth(GivenList) >= 3
  /\ \E i \in 1..Len(given.items) : given.items[i].kind = "leaf"
  /\ Len(items) >= 2
  /\ items[1] # items[2]

\* Any item in one of the kinds an element of the debug runs may have.
DebugElems ==
  Leaves \cup Unreprs \cup
  {[kind |-> "list", elems |-> <<x>>] : x \in Leaves \cup Unreprs}

DebugInit ==
  /\ DbInit
  /\ entities = {}
  /\ items \in SeqsOf(DebugElems)
  /\ apc = "ready"
  /\ out = [exc |-> "none", items |-> <<>>]
  /\ submitted = <<>>
  /\ fut = <<>>
  /\ finished = <<>>
  /\ collected = <<>>
  /\ debug_active \in BOOLEAN
  /\ trace = <<>>
  /\ given = NoCall

DebugNext ==
  \/ Flatten
  \/ Reverse
  \/ AppendItem
  \/ Pop

SpecDebug == DebugInit /\ [][DebugNext]_vars

Unrepresentable(x) == repr(x).exc # "none"

\* C12: whether the debug flag is on or off, and whether or not an element
\* fails to format, a decorated operation leaves the items and returns the
\* result (or raises the exception) of the undecorated operation on the
\* items it was given.
C12_DebugObservationOnly ==
  apc = "called" =>
    /\ out = func_call(given.func, given.items, given.args)
    /\ items = out.items

\* Witness of C12: a call with the flag on, on items one of which fails to
\* format, that changed the items and printed them before and after.
C12_Witness ==
  /\ apc = "called"
  /\ debug_active
  /\ \E i \in 1..Len(given.items) : Unrepresentable(given.items[i])
  /\ out.exc = "none"
  /\ items # given.items
  /\ Len(trace) = 2
  /\ \E i \in 1..Len(trace[1].text) :
       DOMAIN trace[1].text[i] = {"placeholder"}

(***************************************************************************)
(* Creations followed by read_all_entities                                 *)
(***************************************************************************)
\* The permutations of a finite set, as sequences.
OrdersOf(S) ==
  {s \in [1..Cardinality(S) -> S] :
     \A i, j \in 1..Cardinality(S) : s[i] = s[j] => i = j}

\* Mutant of read_all_values: the query stops at the first row.
read_first_value(store) ==
  IF store = {} THEN {<<>>} ELSE {<<r>> : r \in store}

\* SQLAlchemySQLDbAdapter.read_all_values: query(class_table).all(), the
\* rows of the table in the order the storage returns them.
read_all_values(store) == OrdersOf(store)

\* CRUDUseCase.read_all_entities: ReadAllEntitiesResponse.entities.
read_all_entities(store) ==
  {[i \in 1..Len(es) |-> to_read(es[i])] : es \in read_all_values(store)}

\* The write DTOs of the creations: a name, with or without an email.
CreateDTOs ==
  {w \in WriteDTOs : /\ "name" \in w.set
                     /\ w.name \in Names
                     /\ "email" \in w.set => w.email \in Emails}

\* use_case.write_entity(request) without entity_id.
CreateEntity ==
  /\ pc = "idle"
  /\ Len(created) < MaxId
  /\ \E dto \in CreateDTOs :
       \E o \in write_entity(rows, dto, None) :
         /\ call' = [op |-> "write_entity", dto |-> dto, entity_id |-> None]
         /\ rows' = o.rows
         /\ ret' = o.ret
         /\ created' = Append(created, [dto |-> dto, entity |-> o.ret.val[1]])
  /\ pre' = rows
  /\ pc' = "returned"
  /\ UNCHANGED <<inserted, spec, relVars, arrVars, dbgVars>>

\* use_case.read_all_entities()
ReadAllEntities ==
  /\ pc = "idle"
  /\ \E es \in read_all_entities(rows) :
       /\ call' = [op |-> "read_all_entities"]
       /\ Outcome(Return(rows, es))

CreateNext ==
  \/ CreateEntity
  \/ ReadAllEntities
  \/ Resume

SpecCreate == Init /\ [][CreateNext]_vars

\* C13: after n creations on an empty store, read_all_entities returns n
\* Read DTOs with pairwise distinct storage-assigned ids, one for each
\* created record: the Read DTO its creation returned, which carries the
\* fields that were written.
C13_CreateThenReadAll ==
  Returned("read_all_entities") =>
    /\ ret.exc = "none"
    /\ Len(ret.val) = Len(created)
    /\ \A i, j \in 1..Len(ret.val) :
         ret.val[i].id = ret.val[j].id => i = j
    /\ \A i \in 1..Len(ret.val) : ret.val[i].id \in Ids
    /\ \A j \in 1..Len(created) :
         /\ \E i \in 1..Len(ret.val) : ret.val[i] = created[j].entity
         /\ \A f \in created[j].dto.set :
              created[j].entity[f] = created[j].dto[f]

\* Witness of C13: read_all_entities after two creations with the same
\* written fields, the second of which left the email unset.
C13_Witness ==
  /\ Returned("read_all_entities")
  /\ Len(created) >= 2
  /\ created[1].dto = created[2].dto
  /\ created[1].dto.set = {"name"}
  /\ created[1].dto.name = "Alice"
  /\ Len(ret.val) = Len(created)

(***************************************************************************)
(* A use case whose Spec names another identifying field                   *)
(*                                                                         *)
(* The table has the primary key id and an integer column ref; the Spec's  *)
(* id_field is "id" or "ref".                                              *)
(***************************************************************************)
AltIds == 1..MaxAltId
AltRow(i, x, n, e) == [id |-> i, ref |-> x, name |-> n, email |-> e]
AltTables ==
  {t \in SUBSET {AltRow(i, x, n, e) : i \in AltIds, x \in AltIds,
                                      n \in Names, e \in Emails} :
     \A r1, r2 \in t : r1.id = r2.id => r1 = r2}

AltInit ==
  /\ rows \in AltTables
  /\ spec \in {[id_field |-> f] : f \in {"id", "ref"}}
  /\ pc = "idle"
  /\ call = [op |-> "init"]
  /\ ret = [exc |-> "none", val |-> None]
  /\ pre = {}
  /\ inserted = {}
  /\ created = <<>>
  /\ entities = {}
  /\ ArrIdle

\* use_case.write_entity(request, entity_id=k)
UpdateEntity ==
  /\ pc = "idle"
  /\ \E dto \in WriteDTOs, k \in Ids :
       \E o \in write_entity(rows, dto, Some(k)) :
         /\ call' = [op |-> "write_entity", dto |-> dto, entity_id |-> Some(k)]
         /\ Outcome(o)

AltNext ==
  \/ UpdateEntity
  \/ ReadEntity
  \/ DeleteEntityCommit
  \/ DeleteEntityReturn
  \/ Resume

SpecAltId == AltInit /\ [][AltNext]_vars

\* C14: whatever the Spec's id_field, write_entity(u, entity_id=k) changes
\* only records whose identifying field equals k, and the record it has
\* updated is the one read_entity(k) returns and delete_entity(k) deletes.
C14_SameRecordSelected ==
  (Returned("write_entity") /\ call.entity_id # None) =>
    LET k == call.entity_id[1] IN
    /\ \A r \in pre \ rows : r[id_field] = k
    /\ ret.exc = "none" =>
         /\ ret.val \in read_entity(rows, k)
         /\ \A r \in rows :
              to_read(r) = ret.val[1] => r \notin delete_rows(rows, by_id_field(k))
====
